---- MODULE Spec2Model ----
(***************************************************************************)
(* Model of crates/bevy_render/src/mesh.rs: packing a structure-of-arrays  *)
(* Mesh into an interleaved vertex buffer and an index buffer, memoising   *)
(* the GPU buffers per mesh handle in the render resource context, and     *)
(* copying a mesh's primitive topology into each entity's Renderable.      *)
(***************************************************************************)
EXTENDS Integers, Sequences, FiniteSets, TLC

VARIABLES
    mesh,            \* the Mesh handed to the packers
    descriptor,      \* the VertexBufferDescriptor handed to get_vertex_buffer_bytes
    index_format,    \* the IndexFormat handed to get_index_buffer_bytes
    endian,          \* byte order of the build ("little" or "big"): as_bytes is native-endian
    vertex_result,   \* last result of get_vertex_buffer_bytes, or NotRun
    index_result,    \* last result of get_index_buffer_bytes, or NotRun
    meshes,          \* AssetStorage<Mesh>: handle -> Mesh, or NoMesh when not loaded
    mesh_handle,     \* entity -> its Handle<Mesh> component
    asset_resources, \* render resource context: <<handle, slot>> -> buffer id, or NoBuffer
    buffers,         \* render resource context: the buffers created so far, in order
    vertex_buffers,  \* entity -> render_resource_assignments' "Vertex" binding, or NoBinding
    last_call,       \* history: the latest setup_mesh_resource call that has ended
    calls,           \* history: handle -> number of setup_mesh_resource calls started
    procs,           \* in-flight setup_mesh_resource calls (interleaved provisioning)
    topology,        \* entity -> pipeline_specialization.primitive_topology
    changed,         \* entity -> the changed::<Handle<Mesh>>() | changed::<Renderable>() filter
    settled,         \* history: entity -> passes that took it since it last changed (0, 1, 2)
    changes          \* history: number of changes made to components

vars == <<mesh, descriptor, index_format, endian, vertex_result, index_result,
          meshes, mesh_handle, asset_resources, buffers, vertex_buffers,
          last_call, calls, procs, topology, changed, settled, changes>>

packVars == <<mesh, descriptor, index_format, endian, vertex_result, index_result>>
provVars == <<meshes, mesh_handle, asset_resources, buffers, vertex_buffers,
              last_call, calls, procs>>
topoVars == <<topology, changed, settled, changes>>

----------------------------------------------------------------------------
\* Bounds of the model.

MaxVerts == 2
MaxAttrs == 2
MaxEntries == 2
MaxIndices == 3
NumEntities == 2
MaxCalls == 3
NumProcs == 2
MaxChanges == 2

----------------------------------------------------------------------------
\* Program constants.

VERTEX_BUFFER_ASSET_INDEX == 0
INDEX_BUFFER_ASSET_INDEX == 1

POSITION == "Vertex_Position"
NORMAL == "Vertex_Normal"
UV == "Vertex_Uv"

\* Bytes of one element of a VertexAttributeValues variant (Float, Float2,
\* Float3, Float4): f32, [f32; 2], [f32; 3], [f32; 4].  VertexFormat has a
\* variant of the same name for each (From<&VertexAttributeValues>).
ElementSize(kind) ==
    CASE kind = "Float" -> 4
      [] kind = "Float2" -> 8
      [] kind = "Float3" -> 12
      [] kind = "Float4" -> 16

\* VertexFormat::get_size for the four float formats.
get_size(format) ==
    CASE format = "Float" -> 4
      [] format = "Float2" -> 8
      [] format = "Float3" -> 12
      [] format = "Float4" -> 16

Min(a, b) == IF a <= b THEN a ELSE b

----------------------------------------------------------------------------
\* VertexAttributeValues, VertexAttribute and Mesh.
\* An attribute is [name, kind, bytes]: bytes is the raw byte view of its
\* values (get_bytes), len(values) * ElementSize(kind) bytes long.

\* VertexAttributeValues::len
len(values) == Len(values.bytes) \div ElementSize(values.kind)

\* VertexAttributeValues::get_bytes
get_bytes(values) == values.bytes

\* Byte j (from 0) of the attribute at position a of a mesh: a tag that
\* differs between attributes and between positions, and is never 0, the
\* value the output buffer is initialised with.
ByteTag(a, j) == ((a * 64 + j) % 255) + 1

\* The attribute at position a with n elements of the given kind.
MakeAttribute(a, name, kind, n) ==
    [name |-> name, kind |-> kind,
     bytes |-> [j \in 1..(n * ElementSize(kind)) |-> ByteTag(a, j - 1)]]

\* Option<T>: None is the empty sequence, Some(x) the sequence holding x.
None == <<>>

Some(x) == <<x>>

IsSome(o) == Len(o) = 1

Unwrapped(o) == o[1]

\* Mesh::new
MeshNew(primitive_topology) ==
    [primitive_topology |-> primitive_topology, attributes |-> <<>>, indices |-> None]

----------------------------------------------------------------------------
\* Mesh::get_vertex_buffer_bytes

\* let length = self.attributes.first().map(|a| a.values.len()).unwrap_or(0)
VertexCount(m) == IF m.attributes = <<>> THEN 0 ELSE len(m.attributes[1])

\* vec![0; n]
ZeroBytes(n) == [k \in 1..n |-> 0]

\* self.attributes.iter().find(|a| name == a.name): the position of the
\* first attribute with that name, 0 when there is none.
RECURSIVE FindFrom(_, _, _)
FindFrom(attributes, name, k) ==
    IF k > Len(attributes) THEN 0
    ELSE IF attributes[k].name = name THEN k
    ELSE FindFrom(attributes, name, k + 1)

Find(attributes, name) == FindFrom(attributes, name, 1)

\* vertex_offset + vertex_attribute.offset, with vertex_offset = stride * i
AttributeOffsetBug(stride, i, offset) == stride * i

AttributeOffset(stride, i, offset) == stride * i + offset

\* The loop over attribute_bytes.chunks(attribute_size).enumerate(), from
\* chunk i on.  The slice bytes[attribute_offset..attribute_offset + size]
\* panics when it runs past the buffer, and copy_from_slice panics when the
\* last chunk is shorter than the slice.
RECURSIVE CopyChunks(_, _, _, _, _, _)
CopyChunks(bytes, attribute_bytes, attribute_size, stride, offset, i) ==
    IF i * attribute_size >= Len(attribute_bytes)
    THEN [panic |-> FALSE, bytes |-> bytes]
    ELSE LET vertex_slice == SubSeq(attribute_bytes, i * attribute_size + 1,
                                    Min((i + 1) * attribute_size, Len(attribute_bytes)))
             attribute_offset == AttributeOffset(stride, i, offset)
         IN  IF attribute_offset + attribute_size > Len(bytes)
             THEN [panic |-> TRUE, bytes |-> bytes]
             ELSE IF Len(vertex_slice) # attribute_size
             THEN [panic |-> TRUE, bytes |-> bytes]
             ELSE CopyChunks(
                    [k \in 1..Len(bytes) |->
                        IF k > attribute_offset /\ k <= attribute_offset + attribute_size
                        THEN vertex_slice[k - attribute_offset]
                        ELSE bytes[k]],
                    attribute_bytes, attribute_size, stride, offset, i + 1)

\* The three ways the call ends.  allocated is the size of the working
\* buffer the call allocated on entry; an Err or a panic drops that buffer.
OkResult(bytes, allocated) ==
    [tag |-> "Ok", bytes |-> bytes, attribute_name |-> "", allocated |-> allocated]

ErrMissingVertexAttribute(attribute_name, allocated) ==
    [tag |-> "Err", bytes |-> <<>>, attribute_name |-> attribute_name,
     allocated |-> allocated]

PanicResult(allocated) ==
    [tag |-> "Panic", bytes |-> <<>>, attribute_name |-> "", allocated |-> allocated]

RECURSIVE PackEntries(_, _, _, _)

OnMissingSkip(m, d, k, bytes) == PackEntries(m, d, k + 1, bytes)

\* The None arm of the match, at entry k of the descriptor:
\* return Err(MissingVertexAttribute { attribute_name }).
OnMissing(m, d, k, bytes) ==
    ErrMissingVertexAttribute(d.attributes[k].name, Len(bytes))

\* for vertex_attribute in vertex_buffer_descriptor.attributes.iter(), from
\* entry k on.
PackEntries(m, d, k, bytes) ==
    IF k > Len(d.attributes) THEN OkResult(bytes, Len(bytes))
    ELSE LET vertex_attribute == d.attributes[k]
             found == Find(m.attributes, vertex_attribute.name)
         IN  IF found = 0 THEN OnMissing(m, d, k, bytes)
             ELSE LET copied == CopyChunks(bytes, get_bytes(m.attributes[found]),
                                           get_size(vertex_attribute.format),
                                           d.stride, vertex_attribute.offset, 0)
                  IN  IF copied.panic THEN PanicResult(Len(bytes))
                      ELSE PackEntries(m, d, k + 1, copied.bytes)

BufferLengthBug(stride, length) == stride * (length + 1)

\* vertex_buffer_descriptor.stride as usize * length
BufferLength(stride, length) == stride * length

get_vertex_buffer_bytes(m, d) ==
    PackEntries(m, d, 1, ZeroBytes(BufferLength(d.stride, VertexCount(m))))

----------------------------------------------------------------------------
\* Mesh::get_index_buffer_bytes

IndexFormats == {"Uint16", "Uint32"}

AsU16Saturating(i) == Min(i, 65535)

\* *i as u16: the narrowing cast keeps the low 16 bits.
AsU16(i) == i % 65536

\* The bytes of an unsigned integer of the given width, in the build's byte
\* order (zerocopy's as_bytes is the value's memory).
IntBytes(value, width, order) ==
    [k \in 1..width |->
        IF order = "little"
        THEN (value \div (256 ^ (k - 1))) % 256
        ELSE (value \div (256 ^ (width - k))) % 256]

\* as_bytes of a Vec of integers of the given width: tightly packed.
RECURSIVE SliceBytes(_, _, _)
SliceBytes(values, width, order) ==
    IF values = <<>> THEN <<>>
    ELSE IntBytes(Head(values), width, order) \o SliceBytes(Tail(values), width, order)

\* The bytes of the index sequence in the given format.
IndexBytes(indices, format, order) ==
    IF format = "Uint16"
    THEN SliceBytes([j \in 1..Len(indices) |-> AsU16(indices[j])], 2, order)
    ELSE SliceBytes(indices, 4, order)

get_index_buffer_bytes_NoneWhenEmpty(m, format, order) ==
    IF ~IsSome(m.indices) \/ Unwrapped(m.indices) = <<>> THEN None
    ELSE Some(IndexBytes(Unwrapped(m.indices), format, order))

\* self.indices.as_ref().map(|indices| match index_format { .. })
get_index_buffer_bytes(m, format, order) ==
    IF ~IsSome(m.indices) THEN None
    ELSE Some(IndexBytes(Unwrapped(m.indices), format, order))

----------------------------------------------------------------------------
\* Inputs of the packers.

\* Vertex::get_vertex_buffer_descriptor: position at 0, normal at 12, uv at
\* 24, stride 32.
VertexDescriptor ==
    [name |-> "Vertex", stride |-> 32,
     attributes |-> << [name |-> POSITION, format |-> "Float3", offset |-> 0],
                       [name |-> NORMAL, format |-> "Float3", offset |-> 12],
                       [name |-> UV, format |-> "Float2", offset |-> 24] >>]

\* The mesh of tests::test_get_vertex_bytes: three vertices, no indices.
TestMesh ==
    [primitive_topology |-> "TriangleStrip",
     attributes |-> << MakeAttribute(0, POSITION, "Float3", 3),
                       MakeAttribute(1, NORMAL, "Float3", 3),
                       MakeAttribute(2, UV, "Float2", 3) >>,
     indices |-> None]

\* The attributes the generated meshes are built from: the three
\* constructors VertexAttribute::position / normal / uv, and a
\* four-component attribute that reuses the uv name.
AttributeMenu ==
    { <<POSITION, "Float3">>, <<NORMAL, "Float3">>, <<UV, "Float2">>, <<UV, "Float4">> }

\* Meshes of up to MaxAttrs attributes; every attribute has n elements,
\* except that in a ragged mesh those after the first have n + 1.
MeshOf(shape, n, ragged) ==
    [primitive_topology |-> "TriangleList",
     attributes |-> [a \in 1..Len(shape) |->
                        MakeAttribute(a - 1, shape[a][1], shape[a][2],
                                      IF ragged /\ a > 1 THEN n + 1 ELSE n)],
     indices |-> None]

PackMeshes ==
    { MeshOf(shape, n, ragged) :
        shape \in UNION { [1..c -> AttributeMenu] : c \in 0..MaxAttrs },
        n \in 0..MaxVerts, ragged \in BOOLEAN }

\* The entries the generated descriptors are built from, for a stride of 24:
\* position and uv side by side, a normal that overlaps that uv, and a
\* four-component uv that runs past the stride.
EntryMenu ==
    { [name |-> POSITION, format |-> "Float3", offset |-> 0],
      [name |-> UV, format |-> "Float2", offset |-> 12],
      [name |-> NORMAL, format |-> "Float3", offset |-> 12],
      [name |-> UV, format |-> "Float4", offset |-> 12] }

PackDescriptors ==
    { [name |-> "Generated", stride |-> 24, attributes |-> entries] :
        entries \in UNION { [1..c -> EntryMenu] : c \in 0..MaxEntries } }

VertexInputs ==
    { <<TestMesh, VertexDescriptor>> } \cup (PackMeshes \X PackDescriptors)

\* u32 index values around the 16-bit boundary (TLC integers end at 2^31 - 1).
IndexValues == {0, 1, 65535, 65536, 65537, 2147483647}

IndexInputs ==
    { None } \cup { Some(indices) :
                      indices \in UNION { [1..c -> IndexValues] : c \in 0..MaxIndices } }

\* vertex_result and index_result before the packer has run.
NotRun == [tag |-> "NotRun"]

----------------------------------------------------------------------------
\* The asset storage and the render resource context.

\* The mesh handles of the model: 1 is a quad with indices, 2 the mesh of
\* tests::test_get_vertex_bytes (no indices), 3 a mesh with indices and
\* without a uv attribute, 4 a handle whose mesh is not in the storage.
Handles == {1, 2, 3, 4}

\* The attributes and indices of shape::Quad.
QuadMesh ==
    [primitive_topology |-> "TriangleList",
     attributes |-> << MakeAttribute(0, POSITION, "Float3", 4),
                       MakeAttribute(1, NORMAL, "Float3", 4),
                       MakeAttribute(2, UV, "Float2", 4) >>,
     indices |-> Some(<<0, 2, 1, 0, 3, 2>>)]

NoUvMesh ==
    [primitive_topology |-> "LineList",
     attributes |-> << MakeAttribute(0, POSITION, "Float3", 2),
                       MakeAttribute(1, NORMAL, "Float3", 2) >>,
     indices |-> Some(<<0, 1>>)]

\* AssetStorage<Mesh>::get is meshes[handle]: Some(mesh) or None.
Storage ==
    [h \in Handles |->
        CASE h = 1 -> Some(QuadMesh)
          [] h = 2 -> Some(TestMesh)
          [] h = 3 -> Some(NoUvMesh)
          [] h = 4 -> None]

AssetKeys == Handles \X {VERTEX_BUFFER_ASSET_INDEX, INDEX_BUFFER_ASSET_INDEX}

\* RenderResourceContext::get_asset_resource
get_asset_resource(resources, handle, index) == resources[<<handle, index>>]

\* RenderResourceContext::set_asset_resource
set_asset_resource(resources, handle, resource, index) ==
    [resources EXCEPT ![<<handle, index>>] = Some(resource)]

\* RenderResourceContext::create_buffer_with_data: the new buffer's id is its
\* position in the list of buffers created.  handle and call are history:
\* the mesh handle the creating call was for, and that call's number among
\* the calls for the handle.
create_buffer_with_data(bufs, buffer_usage, data, handle, call) ==
    Append(bufs, [buffer_usage |-> buffer_usage, data |-> data,
                  handle |-> handle, call |-> call])

----------------------------------------------------------------------------
\* setup_mesh_resource, one resource context call at a time.  A call in
\* flight is c = [pc, entity, handle, call, hit, vertex_buffer, index_buffer,
\* registered]; each step gives the call and the resource context after it.

BeginCall(entity, handle, call) ==
    [pc |-> "lookup", entity |-> entity, handle |-> handle, call |-> call,
     hit |-> FALSE, vertex_buffer |-> 0, index_buffer |-> None, registered |-> 0]

After(c, resources, bufs) == [c |-> c, resources |-> resources, bufs |-> bufs]

\* if let Some(vertex_buffer) = get_asset_resource(handle, VERTEX_BUFFER_ASSET_INDEX)
LookupVertex(c, resources, bufs) ==
    LET found == get_asset_resource(resources, c.handle, VERTEX_BUFFER_ASSET_INDEX)
    IN  IF IsSome(found)
        THEN After([c EXCEPT !.pc = "hit", !.hit = TRUE,
                             !.vertex_buffer = Unwrapped(found)], resources, bufs)
        ELSE After([c EXCEPT !.pc = "miss"], resources, bufs)

\* (vertex_buffer, get_asset_resource(handle, INDEX_BUFFER_ASSET_INDEX))
LookupIndex(c, resources, bufs) ==
    After([c EXCEPT !.pc = "done",
                    !.index_buffer =
                        get_asset_resource(resources, c.handle, INDEX_BUFFER_ASSET_INDEX)],
          resources, bufs)

CreateVertexOrEmpty(c, resources, bufs) ==
    LET mesh_asset == meshes[c.handle]
    IN  IF ~IsSome(mesh_asset)
        THEN After([c EXCEPT !.pc = "panicked"], resources, bufs)
        ELSE LET packed == get_vertex_buffer_bytes(Unwrapped(mesh_asset), VertexDescriptor)
             IN  After([c EXCEPT !.pc = "vertex_created",
                                 !.vertex_buffer = Len(bufs) + 1],
                       resources,
                       create_buffer_with_data(bufs, "VERTEX", packed.bytes,
                                               c.handle, c.call))

\* meshes.get(&handle).unwrap(), get_vertex_buffer_bytes(..).unwrap(), and
\* create_buffer_with_data for the vertex bytes.  Either unwrap may panic.
CreateVertex(c, resources, bufs) ==
    LET mesh_asset == meshes[c.handle]
    IN  IF ~IsSome(mesh_asset)
        THEN After([c EXCEPT !.pc = "panicked"], resources, bufs)
        ELSE LET packed == get_vertex_buffer_bytes(Unwrapped(mesh_asset), VertexDescriptor)
             IN  IF packed.tag # "Ok"
                 THEN After([c EXCEPT !.pc = "panicked"], resources, bufs)
                 ELSE After([c EXCEPT !.pc = "vertex_created",
                                      !.vertex_buffer = Len(bufs) + 1],
                            resources,
                            create_buffer_with_data(bufs, "VERTEX", packed.bytes,
                                                    c.handle, c.call))

\* get_index_buffer_bytes(index_format).unwrap(), which panics on None, and
\* create_buffer_with_data for the index bytes.  index_format is Uint16.
CreateIndex(c, resources, bufs) ==
    LET index_bytes == get_index_buffer_bytes(Unwrapped(meshes[c.handle]), "Uint16", endian)
    IN  IF ~IsSome(index_bytes)
        THEN After([c EXCEPT !.pc = "panicked"], resources, bufs)
        ELSE After([c EXCEPT !.pc = "index_created",
                             !.index_buffer = Some(Len(bufs) + 1)],
                   resources,
                   create_buffer_with_data(bufs, "INDEX", Unwrapped(index_bytes),
                                           c.handle, c.call))

\* set_asset_resource(handle, vertex_buffer, VERTEX_BUFFER_ASSET_INDEX)
RegisterVertex(c, resources, bufs) ==
    After([c EXCEPT !.pc = "vertex_set", !.registered = c.registered + 1],
          set_asset_resource(resources, c.handle, c.vertex_buffer,
                             VERTEX_BUFFER_ASSET_INDEX),
          bufs)

\* set_asset_resource(handle, index_buffer, INDEX_BUFFER_ASSET_INDEX), and
\* the block's value (vertex_buffer, Some(index_buffer)).
RegisterIndex(c, resources, bufs) ==
    After([c EXCEPT !.pc = "done", !.registered = c.registered + 1],
          set_asset_resource(resources, c.handle, Unwrapped(c.index_buffer),
                             INDEX_BUFFER_ASSET_INDEX),
          bufs)

Ended(c) == c.pc \in {"done", "panicked"}

\* The next resource context call of a call in flight.
StepCall(c, resources, bufs) ==
    CASE c.pc = "lookup" -> LookupVertex(c, resources, bufs)
      [] c.pc = "hit" -> LookupIndex(c, resources, bufs)
      [] c.pc = "miss" -> CreateVertex(c, resources, bufs)
      [] c.pc = "vertex_created" -> CreateIndex(c, resources, bufs)
      [] c.pc = "index_created" -> RegisterVertex(c, resources, bufs)
      [] c.pc = "vertex_set" -> RegisterIndex(c, resources, bufs)

\* The whole call, run to its end.
RECURSIVE RunCall(_, _, _)
RunCall(c, resources, bufs) ==
    IF Ended(c) THEN After(c, resources, bufs)
    ELSE LET next == StepCall(c, resources, bufs)
         IN  RunCall(next.c, next.resources, next.bufs)

\* render_resource_assignments.set_vertex_buffer("Vertex", vertex_buffer,
\* index_buffer), reached only by a call that did not panic.
set_vertex_buffer(bindings, c) ==
    IF c.pc = "done"
    THEN [bindings EXCEPT ![c.entity] = Some(<<c.vertex_buffer, c.index_buffer>>)]
    ELSE bindings

\* What the history keeps of a call that has ended.
CallRecord(seq, c, created) ==
    [seq |-> seq, entity |-> c.entity, handle |-> c.handle, call |-> c.call,
     hit |-> c.hit, outcome |-> c.pc, vertex_buffer |-> c.vertex_buffer,
     index_buffer |-> c.index_buffer, created |-> created,
     registered |-> c.registered]

----------------------------------------------------------------------------
\* The values the variables of the other parts of the model rest at while
\* one part is checked.

Entities == 1..NumEntities

Procs == 1..NumProcs

NoCall == [seq |-> 0]

PackIdle ==
    /\ mesh = MeshNew("TriangleList")
    /\ descriptor = VertexDescriptor
    /\ index_format = "Uint16"
    /\ endian = "little"
    /\ vertex_result = NotRun
    /\ index_result = NotRun

ProvIdle ==
    /\ meshes = <<>>
    /\ mesh_handle = <<>>
    /\ asset_resources = <<>>
    /\ buffers = <<>>
    /\ vertex_buffers = <<>>
    /\ last_call = NoCall
    /\ calls = <<>>
    /\ procs = <<>>

TopoIdle ==
    /\ topology = <<>>
    /\ changed = <<>>
    /\ settled = <<>>
    /\ changes = 0

----------------------------------------------------------------------------
\* The vertex packer applied to every input.

InitVertex ==
    /\ \E input \in VertexInputs :
          /\ mesh = input[1]
          /\ descriptor = input[2]
    /\ index_format = "Uint16"
    /\ endian = "little"
    /\ vertex_result = NotRun
    /\ index_result = NotRun
    /\ ProvIdle
    /\ TopoIdle

PackVertex ==
    /\ vertex_result = NotRun
    /\ vertex_result' = get_vertex_buffer_bytes(mesh, descriptor)
    /\ UNCHANGED <<mesh, descriptor, index_format, endian, index_result>>
    /\ UNCHANGED provVars
    /\ UNCHANGED topoVars

NextVertex == PackVertex

SpecVertex == InitVertex /\ [][NextVertex]_vars

----------------------------------------------------------------------------
\* The index packer applied to every input.

InitIndex ==
    /\ \E indices \in IndexInputs :
          mesh = [MeshNew("TriangleList") EXCEPT !.indices = indices]
    /\ descriptor = VertexDescriptor
    /\ index_format \in IndexFormats
    /\ endian \in {"little", "big"}
    /\ vertex_result = NotRun
    /\ index_result = NotRun
    /\ ProvIdle
    /\ TopoIdle

PackIndex ==
    /\ index_result = NotRun
    /\ index_result' = [tag |-> "Ran",
                        value |-> get_index_buffer_bytes(mesh, index_format, endian)]
    /\ UNCHANGED <<mesh, descriptor, index_format, endian, vertex_result>>
    /\ UNCHANGED provVars
    /\ UNCHANGED topoVars

NextIndex == PackIndex

SpecIndex == InitIndex /\ [][NextIndex]_vars

----------------------------------------------------------------------------
\* Properties of get_vertex_buffer_bytes.

VertexRan == vertex_result # NotRun

\* Every name in the descriptor is the name of an attribute of the mesh.
NamesPresent(m, d) ==
    \A k \in 1..Len(d.attributes) :
        \E a \in 1..Len(m.attributes) : m.attributes[a].name = d.attributes[k].name

\* All attributes of the mesh have the same length.
EqualLengths(m) ==
    \A a, b \in 1..Len(m.attributes) : len(m.attributes[a]) = len(m.attributes[b])

\* The attribute an entry names: the first one of that name.
Matching(m, entry) ==
    LET a == CHOOSE a \in 1..Len(m.attributes) :
                 /\ m.attributes[a].name = entry.name
                 /\ \A b \in 1..(a - 1) : m.attributes[b].name # entry.name
    IN  m.attributes[a]

HasAttribute(m, entry) ==
    \E a \in 1..Len(m.attributes) : m.attributes[a].name = entry.name

\* The entry's format is as wide as an element of the attribute it names.
SizeMatches(m, entry) ==
    get_size(entry.format) = ElementSize(Matching(m, entry).kind)

\* The entry's bytes lie within one vertex record.
WithinStride(d, entry) == entry.offset + get_size(entry.format) <= d.stride

\* No two entries of the descriptor claim the same byte of a vertex record.
Disjoint(d) ==
    \A j, k \in 1..Len(d.attributes) :
        j # k =>
            \/ d.attributes[j].offset + get_size(d.attributes[j].format)
                   <= d.attributes[k].offset
            \/ d.attributes[k].offset + get_size(d.attributes[k].format)
                   <= d.attributes[j].offset

C1Pre ==
    /\ NamesPresent(mesh, descriptor)
    /\ EqualLengths(mesh)
    /\ \A k \in 1..Len(descriptor.attributes) : SizeMatches(mesh, descriptor.attributes[k])

\* The result is Ok and every entry's bytes of every vertex are those of the
\* attribute's element.
Interleaved ==
    /\ vertex_result.tag = "Ok"
    /\ \A i \in 0..(VertexCount(mesh) - 1) :
         \A k \in 1..Len(descriptor.attributes) :
            LET entry == descriptor.attributes[k]
                size == get_size(entry.format)
                at == descriptor.stride * i + entry.offset
            IN  /\ at + size <= Len(vertex_result.bytes)
                /\ \A b \in 1..size :
                      vertex_result.bytes[at + b]
                          = Matching(mesh, entry).bytes[i * size + b]

\* C1 as stated: whenever the descriptor's names are attributes of the mesh,
\* the attributes have one length and the format sizes equal the element
\* sizes, the result is Ok and holds element i of every entry's attribute at
\* stride * i + offset.
C1_AsStated == (VertexRan /\ C1Pre) => Interleaved

\* C1, amended: the same, for descriptors whose entries lie within the stride
\* and do not overlap one another.
C1_Interleaved ==
    ( /\ VertexRan
      /\ C1Pre
      /\ \A k \in 1..Len(descriptor.attributes) :
            WithinStride(descriptor, descriptor.attributes[k])
      /\ Disjoint(descriptor) )
    => Interleaved

C1_Witness ==
    /\ VertexRan
    /\ C1Pre
    /\ Disjoint(descriptor)
    /\ Len(descriptor.attributes) >= 2
    /\ descriptor.attributes[2].offset > 0
    /\ VertexCount(mesh) >= 2
    /\ vertex_result.tag = "Ok"

\* C2 as stated: whenever the descriptor's names are attributes of the mesh
\* and the attributes have one length, the call produces a buffer of exactly
\* stride * vertex_count bytes.
C2_AsStated ==
    (VertexRan /\ NamesPresent(mesh, descriptor) /\ EqualLengths(mesh))
    => /\ vertex_result.tag = "Ok"
       /\ Len(vertex_result.bytes)
            = descriptor.stride
                * (IF mesh.attributes = <<>> THEN 0 ELSE len(mesh.attributes[1]))

\* C2, amended: under the stated conditions every buffer the call returns has
\* exactly stride * vertex_count bytes, and it returns one when, besides,
\* every entry's format size equals its attribute's element size and every
\* entry lies within the stride.
C2_BufferSize ==
    (VertexRan /\ NamesPresent(mesh, descriptor) /\ EqualLengths(mesh))
    => /\ vertex_result.tag = "Ok"
            => Len(vertex_result.bytes)
                 = descriptor.stride
                     * (IF mesh.attributes = <<>> THEN 0 ELSE len(mesh.attributes[1]))
       /\ (\A k \in 1..Len(descriptor.attributes) :
              /\ SizeMatches(mesh, descriptor.attributes[k])
              /\ WithinStride(descriptor, descriptor.attributes[k]))
            => vertex_result.tag = "Ok"

C2_Witness ==
    /\ VertexRan
    /\ NamesPresent(mesh, descriptor)
    /\ EqualLengths(mesh)
    /\ Len(descriptor.attributes) >= 1
    /\ Len(mesh.attributes) >= 2
    /\ len(mesh.attributes[1]) >= 1
    /\ vertex_result.tag = "Ok"
    /\ Len(vertex_result.bytes) = descriptor.stride * len(mesh.attributes[1])

\* The first entry of the descriptor whose name no attribute of the mesh has.
FirstMissing(m, d) ==
    CHOOSE k \in 1..Len(d.attributes) :
        /\ ~HasAttribute(m, d.attributes[k])
        /\ \A j \in 1..(k - 1) : HasAttribute(m, d.attributes[j])

\* C3 as stated: when the descriptor names an attribute the mesh lacks, the
\* call fails with MissingVertexAttribute and allocates no buffer.
C3_AsStated ==
    (VertexRan /\ ~NamesPresent(mesh, descriptor))
    => /\ vertex_result.tag = "Err"
       /\ vertex_result.allocated = 0

\* C3, amended: when the descriptor names an attribute the mesh lacks, the
\* call returns no buffer; it fails with MissingVertexAttribute, naming the
\* first such entry, when the attributes have one length and the entries
\* before that one match their attributes' element sizes and lie within the
\* stride; the working buffer of stride * vertex_count bytes it allocated on
\* entry is dropped.
C3_NoBuffer ==
    (VertexRan /\ ~NamesPresent(mesh, descriptor))
    => /\ vertex_result.tag # "Ok"
       /\ vertex_result.bytes = <<>>
       /\ vertex_result.allocated = descriptor.stride * VertexCount(mesh)
       /\ ( /\ EqualLengths(mesh)
            /\ \A j \in 1..(FirstMissing(mesh, descriptor) - 1) :
                  /\ SizeMatches(mesh, descriptor.attributes[j])
                  /\ WithinStride(descriptor, descriptor.attributes[j]) )
            => /\ vertex_result.tag = "Err"
               /\ vertex_result.attribute_name
                    = descriptor.attributes[FirstMissing(mesh, descriptor)].name

C3_Witness ==
    /\ VertexRan
    /\ ~NamesPresent(mesh, descriptor)
    /\ FirstMissing(mesh, descriptor) >= 2
    /\ VertexCount(mesh) >= 1
    /\ vertex_result.tag = "Err"
    /\ vertex_result.allocated > 0

----------------------------------------------------------------------------
\* Properties of get_index_buffer_bytes.

IndexRan == index_result # NotRun

\* The j-th 16-bit integer of a tightly packed buffer, in the build's order.
U16At(bytes, j, order) ==
    IF order = "little"
    THEN bytes[2 * j - 1] + 256 * bytes[2 * j]
    ELSE 256 * bytes[2 * j - 1] + bytes[2 * j]

\* C8: with the 16-bit format, k indices give 2 * k bytes holding, in order,
\* the 16-bit integers x_j mod 65536.
C8_Truncates ==
    (IndexRan /\ index_format = "Uint16" /\ IsSome(mesh.indices))
    => /\ IsSome(index_result.value)
       /\ LET indices == Unwrapped(mesh.indices)
              bytes == Unwrapped(index_result.value)
          IN  /\ Len(bytes) = 2 * Len(indices)
              /\ \A j \in 1..Len(indices) :
                    U16At(bytes, j, endian) = indices[j] % 65536

C8_Witness ==
    /\ IndexRan
    /\ index_format = "Uint16"
    /\ mesh.indices = Some(<<0, 1, 65536>>)
    /\ IsSome(index_result.value)
    /\ Len(Unwrapped(index_result.value)) = 6
    /\ \A j \in 1..3 : U16At(Unwrapped(index_result.value), j, endian) = <<0, 1, 0>>[j]

\* C9: for either format the result is None exactly when the mesh has no
\* index sequence; an empty index sequence gives an empty buffer.
C9_NoneIffNoIndices ==
    IndexRan
    => /\ (index_result.value = None) <=> (mesh.indices = None)
       /\ (mesh.indices = Some(<<>>)) => (index_result.value = Some(<<>>))

C9_Witness ==
    /\ IndexRan
    /\ mesh.indices = Some(<<>>)
    /\ index_result.value = Some(<<>>)
    /\ index_result.value # None

----------------------------------------------------------------------------
\* Provisioning, one call after another: mesh_resource_provider_system calls
\* setup_mesh_resource for each entity in turn, every pass.  A panic ends
\* the call it happens in; the resource context is shared and outlives it.

Sum(f) ==
    LET RECURSIVE S(_)
        S(D) == IF D = {} THEN 0
                ELSE LET x == CHOOSE x \in D : TRUE IN f[x] + S(D \ {x})
    IN  S(DOMAIN f)

InitProvision ==
    /\ PackIdle
    /\ TopoIdle
    /\ meshes = Storage
    /\ mesh_handle \in [Entities -> Handles]
    /\ asset_resources = [k \in AssetKeys |-> None]
    /\ buffers = <<>>
    /\ vertex_buffers = [e \in Entities |-> None]
    /\ last_call = NoCall
    /\ calls = [h \in Handles |-> 0]
    /\ procs = [p \in Procs |-> [pc |-> "idle"]]

SetupMeshResource(e) ==
    /\ Sum(calls) < MaxCalls
    /\ LET handle == mesh_handle[e]
           end == RunCall(BeginCall(e, handle, calls[handle] + 1),
                          asset_resources, buffers)
       IN  /\ asset_resources' = end.resources
           /\ buffers' = end.bufs
           /\ vertex_buffers' = set_vertex_buffer(vertex_buffers, end.c)
           /\ calls' = [calls EXCEPT ![handle] = @ + 1]
           /\ last_call' = CallRecord(last_call.seq + 1, end.c,
                                      Len(end.bufs) - Len(buffers))
    /\ UNCHANGED <<meshes, mesh_handle, procs>>
    /\ UNCHANGED packVars
    /\ UNCHANGED topoVars

Next == \E e \in Entities : SetupMeshResource(e)

Spec == InitProvision /\ [][Next]_vars

----------------------------------------------------------------------------
\* Provisioning with the calls interleaved: each process runs one call at a
\* time, one resource context call per step.  Two calls in flight are never
\* for the same entity (each holds its Renderable mutably).

StartCall(p, e) ==
    /\ procs[p].pc = "idle"
    /\ Sum(calls) < MaxCalls
    /\ \A q \in Procs : procs[q].pc # "idle" => procs[q].entity # e
    /\ procs' = [procs EXCEPT
                    ![p] = BeginCall(e, mesh_handle[e], calls[mesh_handle[e]] + 1)]
    /\ calls' = [calls EXCEPT ![mesh_handle[e]] = @ + 1]
    /\ UNCHANGED <<meshes, mesh_handle, asset_resources, buffers, vertex_buffers,
                   last_call>>
    /\ UNCHANGED packVars
    /\ UNCHANGED topoVars

ContinueCall(p) ==
    /\ procs[p].pc # "idle"
    /\ LET next == StepCall(procs[p], asset_resources, buffers)
       IN  /\ asset_resources' = next.resources
           /\ buffers' = next.bufs
           /\ vertex_buffers' = set_vertex_buffer(vertex_buffers, next.c)
           /\ IF Ended(next.c)
              THEN /\ procs' = [procs EXCEPT ![p] = [pc |-> "idle"]]
                   /\ last_call' = CallRecord(last_call.seq + 1, next.c, 0)
              ELSE /\ procs' = [procs EXCEPT ![p] = next.c]
                   /\ UNCHANGED last_call
    /\ UNCHANGED <<meshes, mesh_handle, calls>>
    /\ UNCHANGED packVars
    /\ UNCHANGED topoVars

NextConcurrent ==
    \/ \E p \in Procs, e \in Entities : StartCall(p, e)
    \/ \E p \in Procs : ContinueCall(p)

SpecConcurrent == InitProvision /\ [][NextConcurrent]_vars

----------------------------------------------------------------------------
\* mesh_specializer_system

\* The variants of PrimitiveTopology.
Topologies == {"PointList", "LineList", "LineStrip", "TriangleList", "TriangleStrip"}

PrimitiveTopologyDefault(m) == "TriangleList"

\* The value assigned: mesh.primitive_topology
PrimitiveTopologyOf(m) == m.primitive_topology

\* for (mesh_handle, mut renderable) in query.iter_mut(world), from entity e
\* on: the entities the changed filter passes, in order.  meshes.get(..)
\* .unwrap() panics on a handle whose mesh is not loaded, which ends the
\* pass.  taken is the set of entities the loop body ran for.
RECURSIVE SpecializeFrom(_, _, _)
SpecializeFrom(e, topo, taken) ==
    IF e > NumEntities THEN [topology |-> topo, taken |-> taken, panicked |-> FALSE]
    ELSE IF ~changed[e] THEN SpecializeFrom(e + 1, topo, taken)
    ELSE IF ~IsSome(meshes[mesh_handle[e]])
    THEN [topology |-> topo, taken |-> taken, panicked |-> TRUE]
    ELSE SpecializeFrom(e + 1,
            [topo EXCEPT ![e] = PrimitiveTopologyOf(Unwrapped(meshes[mesh_handle[e]]))],
            taken \cup {e})

InitTopology ==
    /\ PackIdle
    /\ meshes = Storage
    /\ mesh_handle \in [Entities -> Handles]
    /\ asset_resources = <<>>
    /\ buffers = <<>>
    /\ vertex_buffers = <<>>
    /\ last_call = NoCall
    /\ calls = <<>>
    /\ procs = <<>>
    /\ topology = [e \in Entities |-> "TriangleList"]
    /\ changed = [e \in Entities |-> TRUE]
    /\ settled = [e \in Entities |-> 0]
    /\ changes = 0

\* One run of the system.  The filter passes an entity again on the next
\* run when its Handle<Mesh> or Renderable changes in between; whether the
\* system's own write to the Renderable counts as such a change is left to
\* the entity system, so a taken entity may or may not pass again.
MeshSpecializerSystem ==
    /\ LET pass == SpecializeFrom(1, topology, {})
       IN  /\ topology' = pass.topology
           /\ settled' = [e \in Entities |->
                            IF e \in pass.taken THEN Min(settled[e] + 1, 2)
                            ELSE settled[e]]
           /\ \E again \in SUBSET pass.taken :
                 changed' = [e \in Entities |->
                                IF e \in pass.taken THEN e \in again ELSE changed[e]]
    /\ UNCHANGED changes
    /\ UNCHANGED provVars
    /\ UNCHANGED packVars

\* The entity's Handle<Mesh> component is replaced.
ChangeMeshHandle(e, h) ==
    /\ changes < MaxChanges
    /\ mesh_handle' = [mesh_handle EXCEPT ![e] = h]
    /\ changed' = [changed EXCEPT ![e] = TRUE]
    /\ settled' = [settled EXCEPT ![e] = 0]
    /\ changes' = changes + 1
    /\ UNCHANGED <<meshes, asset_resources, buffers, vertex_buffers, last_call,
                   calls, procs, topology>>
    /\ UNCHANGED packVars

\* The entity's Renderable is written, its topology set to t.
ChangeRenderable(e, t) ==
    /\ changes < MaxChanges
    /\ topology' = [topology EXCEPT ![e] = t]
    /\ changed' = [changed EXCEPT ![e] = TRUE]
    /\ settled' = [settled EXCEPT ![e] = 0]
    /\ changes' = changes + 1
    /\ UNCHANGED provVars
    /\ UNCHANGED packVars

NextTopology ==
    \/ MeshSpecializerSystem
    \/ \E e \in Entities, h \in Handles : ChangeMeshHandle(e, h)
    \/ \E e \in Entities, t \in Topologies : ChangeRenderable(e, t)

SpecTopology == InitTopology /\ [][NextTopology]_vars

----------------------------------------------------------------------------
\* Properties of setup_mesh_resource.

\* The mesh of the handle is loaded, has every attribute the Vertex
\* descriptor names, and packs.
Packs(h) ==
    /\ IsSome(meshes[h])
    /\ NamesPresent(Unwrapped(meshes[h]), VertexDescriptor)
    /\ EqualLengths(Unwrapped(meshes[h]))

\* The mesh of the handle is loaded and lacks an attribute the Vertex
\* descriptor names.
LacksAttribute(h) ==
    /\ IsSome(meshes[h])
    /\ ~NamesPresent(Unwrapped(meshes[h]), VertexDescriptor)

Created(h, usage) ==
    { i \in 1..Len(buffers) :
        buffers[i].handle = h /\ buffers[i].buffer_usage = usage }

\* C4 as stated: buffers for a handle are created and registered by the
\* first call for the handle only, at most one of each kind, and a later
\* call that finds the handle cached attaches the cached handles.
C4_AsStated ==
    /\ \A i \in 1..Len(buffers) : buffers[i].call = 1
    /\ \A h \in Handles :
          /\ Cardinality(Created(h, "VERTEX")) <= 1
          /\ Cardinality(Created(h, "INDEX")) <= 1
    /\ (last_call.seq >= 1 /\ last_call.call > 1)
          => /\ last_call.created = 0
             /\ last_call.registered = 0
             /\ last_call.hit
                  => vertex_buffers[last_call.entity]
                       = Some(<< Unwrapped(asset_resources[
                                     <<last_call.handle, VERTEX_BUFFER_ASSET_INDEX>>]),
                                 asset_resources[
                                     <<last_call.handle, INDEX_BUFFER_ASSET_INDEX>>] >>)

C6_AbortsClean ==
    [][ ( /\ last_call'.seq = last_call.seq + 1
          /\ LacksAttribute(last_call'.handle)
          /\ ~IsSome(asset_resources[<<last_call'.handle, VERTEX_BUFFER_ASSET_INDEX>>]) )
        => /\ last_call'.outcome = "panicked"
           /\ buffers' = buffers
           /\ asset_resources' = asset_resources
           /\ vertex_buffers' = vertex_buffers ]_vars

C6_Witness ==
    /\ last_call.seq >= 2
    /\ LacksAttribute(last_call.handle)
    /\ ~last_call.hit
    /\ last_call.outcome = "panicked"
    /\ Len(buffers) >= 2
    /\ vertex_buffers[last_call.entity] = None

\* C7 as stated: a call that misses the cache for a mesh without indices that
\* satisfies the descriptor completes: it creates and registers the vertex
\* buffer alone and attaches it with no index buffer.
C7_AsStated ==
    ( /\ last_call.seq >= 1
      /\ ~last_call.hit
      /\ Packs(last_call.handle)
      /\ Unwrapped(meshes[last_call.handle]).indices = None )
    => /\ last_call.outcome = "done"
       /\ last_call.created = 1
       /\ asset_resources[<<last_call.handle, VERTEX_BUFFER_ASSET_INDEX>>]
            = Some(last_call.vertex_buffer)
       /\ vertex_buffers[last_call.entity] = Some(<<last_call.vertex_buffer, None>>)

----------------------------------------------------------------------------
\* Properties of mesh_specializer_system.

\* C10: an entity a pass has taken, with its mesh handle and Renderable
\* unchanged since, has the primitive topology of the mesh it refers to, and
\* a further pass leaves that topology as it is.
C10_Idempotent ==
    /\ [](\A e \in Entities :
            settled[e] >= 1
            => /\ IsSome(meshes[mesh_handle[e]])
               /\ topology[e] = Unwrapped(meshes[mesh_handle[e]]).primitive_topology)
    /\ [][\A e \in Entities :
            (settled[e] >= 1 /\ settled'[e] >= 1) => topology'[e] = topology[e]]_vars

C10_Witness ==
    \E e \in Entities :
        /\ settled[e] = 2
        /\ changes >= 1
        /\ topology[e] = Unwrapped(meshes[mesh_handle[e]]).primitive_topology
        /\ topology[e] # "TriangleList"

====
